---- MODULE Spec2Model ----
(***************************************************************************)
(* Job application workflow: status tracking (ApplicationTracker), the     *)
(* audit log (AuditLog), and the application manager with its form filler  *)
(* (ApplicationManager, FormFiller), over one shared SQLite database.      *)
(*                                                                         *)
(* Every database session reads committed rows and publishes its pending   *)
(* changes in one commit; a session that raises is rolled back.            *)
(* Timestamps are kept at day granularity; scores are in hundredths.       *)
(***************************************************************************)
EXTENDS Integers, Sequences, FiniteSets, TLC

\* ---------------------------------------------------------------- bounds
NumJobs == 2
NumProcs == 2
MaxCalls == 2
MaxConcCalls == 2
MaxDay == 1
\* largest application.daily_limit a configuration of the model supplies
MaxDailyLimit == 2

JobIds == 1..NumJobs
\* ids a caller may pass: every job id and one id that has no row
RequestIds == 1..(NumJobs + 1)
Procs == 1..NumProcs

None == "None"
NoTime == 0 - 1
NoJob == [status |-> None]

VARIABLES
    jobs,          \* committed Job rows, by id
    applications,  \* committed Application rows, in insertion order
    audit,         \* committed AuditLog rows, in insertion order
    now,           \* the current day
    dry_run,       \* application.dry_run of the configuration
    daily_limit,   \* application.daily_limit of the configuration
    calls,         \* number of operations started
    pc,            \* position of each process
    loc,           \* locals of each process
    fn             \* arguments and result of a scoring function applied on its own

vars == <<jobs, applications, audit, now, dry_run, daily_limit, calls, pc, loc, fn>>

\* ------------------------------------------------------- database/models.py
\* The eight workflow states.
WorkflowStates ==
    {"new", "matched", "approved", "rejected", "applied", "interview", "offer",
     "accepted"}

\* Values of the JobStatus enum; the status column itself is a plain String(50).
JobStatus ==
    {"new", "matched", "approved", "rejected", "applied", "interview", "offer",
     "closed"}

\* Status strings a caller may pass to update_status.
StatusInputs == WorkflowStates \cup JobStatus

NotesInputs == {None, "a"}

\* Job row as created by the scraper: column defaults of the Job model.
NewJob(id) ==
    [status |-> "new", is_approved |-> FALSE, approval_notes |-> None,
     is_easy_apply |-> (id % 2 = 1), posted_date |-> 0, match_score |-> 0,
     matched_at |-> NoTime, approved_at |-> NoTime, applied_at |-> NoTime,
     updated_at |-> 0]

\* AuditLog.log: build the entry and add it to the session's pending inserts;
\* created_at is a column default, filled when the row is inserted.
AuditLog_log(pending, action, entity_type, entity_id, details, status, error) ==
    Append(pending,
           [action |-> action, entity_type |-> entity_type, entity_id |-> entity_id,
            details |-> details, status |-> status, error_message |-> error,
            created_at |-> NoTime])

\* ------------------------------------------------------- tracking/tracker.py
\* Variant of STATUS_FLOW in which a rejected job may be reopened.
STATUS_FLOW_reopen ==
    [new |-> {"matched", "rejected"},
     matched |-> {"approved", "rejected"},
     approved |-> {"applied", "rejected"},
     applied |-> {"interview", "rejected", "offer"},
     interview |-> {"offer", "rejected"},
     offer |-> {"accepted", "rejected"},
     rejected |-> {"new", "matched", "approved"},
     accepted |-> {}]

STATUS_FLOW ==
    [new |-> {"matched", "rejected"},
     matched |-> {"approved", "rejected"},
     approved |-> {"applied", "rejected"},
     applied |-> {"interview", "rejected", "offer"},
     interview |-> {"offer", "rejected"},
     offer |-> {"accepted", "rejected"},
     rejected |-> {},
     accepted |-> {}]

\* STATUS_FLOW.get(old_status, [new_status])
AllowedNext(old_status, new_status) ==
    IF old_status \in DOMAIN STATUS_FLOW THEN STATUS_FLOW[old_status] ELSE {new_status}

\* "Invalid status transition" warning condition of update_status.
InvalidTransition(old_status, new_status) ==
    new_status \notin AllowedNext(old_status, new_status)

\* Variant of update_status_assign that skips an invalid transition.
update_status_assign_strict(job, new_status, notes, t) ==
    IF job.status \in DOMAIN STATUS_FLOW /\ new_status \notin STATUS_FLOW[job.status]
    THEN job
    ELSE [job EXCEPT !.status = new_status, !.updated_at = t]

\* Variant of update_status_assign in which rejected leaves is_approved as
\* it was.
update_status_assign_keep_approved(job, new_status, notes, t) ==
    LET j1 == [job EXCEPT !.status = new_status, !.updated_at = t]
        j2 == IF new_status = "matched" THEN [j1 EXCEPT !.matched_at = t]
              ELSE IF new_status = "approved"
                   THEN [j1 EXCEPT !.approved_at = t, !.is_approved = TRUE]
              ELSE IF new_status = "applied" THEN [j1 EXCEPT !.applied_at = t]
              ELSE j1
    IN  IF notes # None THEN [j2 EXCEPT !.approval_notes = notes] ELSE j2

\* The field assignments update_status makes on the loaded job.
update_status_assign(job, new_status, notes, t) ==
    LET j1 == [job EXCEPT !.status = new_status, !.updated_at = t]
        j2 == IF new_status = "matched" THEN [j1 EXCEPT !.matched_at = t]
              ELSE IF new_status = "approved"
                   THEN [j1 EXCEPT !.approved_at = t, !.is_approved = TRUE]
              ELSE IF new_status = "applied" THEN [j1 EXCEPT !.applied_at = t]
              ELSE IF new_status = "rejected" THEN [j1 EXCEPT !.is_approved = FALSE]
              ELSE j1
    IN  IF notes # None THEN [j2 EXCEPT !.approval_notes = notes] ELSE j2

\* ------------------------------------------------------------ database/db.py
\* Flush of one loaded row: only the attributes whose value differs from the
\* loaded one are written; any UPDATE refreshes updated_at (onupdate).
FlushJob(row, loaded, pend, t) ==
    LET dirty == {f \in DOMAIN row : pend[f] # loaded[f]}
        merged == [f \in DOMAIN row |-> IF f \in dirty THEN pend[f] ELSE row[f]]
    IN  IF dirty = {} THEN row
        ELSE IF "updated_at" \in dirty THEN merged
        ELSE [merged EXCEPT !.updated_at = t]

\* session.commit(): the pending change of the loaded job row is written ...
session_commit_job(rows, job_id, loaded, pend, t) ==
    [rows EXCEPT ![job_id] = FlushJob(@, loaded, pend, t)]

\* INSERT of one pending row: a created_at left unset takes its default, the
\* time of the insert.
InsertRow(row, t) ==
    IF "created_at" \in DOMAIN row /\ row.created_at = NoTime
    THEN [row EXCEPT !.created_at = t]
    ELSE row

\* Variant of session_commit_add that overwrites the table's rows.
session_commit_replace(table, pending, t) ==
    [k \in 1..Len(pending) |-> InsertRow(pending[k], t)]

\* ... and the pending inserts are appended to their table.
session_commit_add(table, pending, t) ==
    table \o [k \in 1..Len(pending) |-> InsertRow(pending[k], t)]

\* session.rollback() in get_session: the table keeps its committed rows.
session_rollback(table, pending) == table

\* ------------------------------------------------------ matching/matcher.py
\* Matching weights, in percent.
weight_skills == 40
weight_role == 30
weight_work_mode == 15
weight_employment == 15
\* matching.min_score
min_score == 50

\* The four sub-scores of a posting against the profile (skill, role title,
\* work mode, employment type); they depend on the posting's text only.
SubScores(id) ==
    IF id % 3 = 1 THEN [skill |-> 100, role |-> 100, work_mode |-> 100, employment |-> 100]
    ELSE IF id % 3 = 2 THEN [skill |-> 50, role |-> 100, work_mode |-> 70, employment |-> 70]
    ELSE [skill |-> 50, role |-> 50, work_mode |-> 70, employment |-> 70]

\* The weights JobMatcher.__init__ takes when the configuration has none.
DefaultWeights ==
    [skills |-> weight_skills, role |-> weight_role,
     work_mode |-> weight_work_mode, employment |-> weight_employment]

\* Lines 95-108 of match_job: the weighted total of the four sub-scores s under
\* the weights w, in hundredths of a point (round(total, 2)).
match_job_total(s, w) ==
    s.skill * w.skills + s.role * w.role
    + s.work_mode * w.work_mode + s.employment * w.employment

\* match_job of a stored posting under the default weights.
match_job(id) == match_job_total(SubScores(id), DefaultWeights)

\* ---------------------------------------- matching/matcher.py, on the texts
\* Texts are sequences of characters, so that "in" is the substring test the
\* code makes. These are the skill names, synonyms, role titles, keywords and
\* posting texts the model uses.
Txt ==
    [empty |-> <<>>,
     Python |-> <<"P", "y", "t", "h", "o", "n">>,
     SQL |-> <<"S", "Q", "L">>,
     AWS |-> <<"A", "W", "S">>,
     Java |-> <<"J", "a", "v", "a">>,
     python |-> <<"p", "y", "t", "h", "o", "n">>,
     python3 |-> <<"p", "y", "t", "h", "o", "n", "3">>,
     python_3 |-> <<"p", "y", "t", "h", "o", "n", " ", "3">>,
     py |-> <<"p", "y">>,
     sql |-> <<"s", "q", "l">>,
     mysql |-> <<"m", "y", "s", "q", "l">>,
     postgresql |-> <<"p", "o", "s", "t", "g", "r", "e", "s", "q", "l">>,
     postgres |-> <<"p", "o", "s", "t", "g", "r", "e", "s">>,
     sqlite |-> <<"s", "q", "l", "i", "t", "e">>,
     oracle |-> <<"o", "r", "a", "c", "l", "e">>,
     aws |-> <<"a", "w", "s">>,
     amazon_web_services |->
        <<"a", "m", "a", "z", "o", "n", " ", "w", "e", "b", " ", "s", "e", "r", "v", "i", "c", "e", "s">>,
     amazon_web_services_hyphen |->
        <<"a", "m", "a", "z", "o", "n", "-", "w", "e", "b", "-", "s", "e", "r", "v", "i", "c", "e", "s">>,
     Python_Developer |->
        <<"P", "y", "t", "h", "o", "n", " ", "D", "e", "v", "e", "l", "o", "p", "e", "r">>,
     Java_Developer |->
        <<"J", "a", "v", "a", " ", "D", "e", "v", "e", "l", "o", "p", "e", "r">>,
     Data_Engineer |-> <<"D", "a", "t", "a", " ", "E", "n", "g", "i", "n", "e", "e", "r">>,
     ETL_Engineer |-> <<"E", "T", "L", " ", "E", "n", "g", "i", "n", "e", "e", "r">>,
     AWS_Engineer |-> <<"A", "W", "S", " ", "E", "n", "g", "i", "n", "e", "e", "r">>,
     Accountant |-> <<"A", "c", "c", "o", "u", "n", "t", "a", "n", "t">>,
     Requires_Python_and_Pandas |->
        <<"R", "e", "q", "u", "i", "r", "e", "s", " ", "P", "y", "t", "h", "o", "n", " ", "a", "n", "d", " ", "P", "a", "n", "d", "a", "s">>,
     data_engineer |-> <<"d", "a", "t", "a", " ", "e", "n", "g", "i", "n", "e", "e", "r">>,
     data |-> <<"d", "a", "t", "a">>,
     engineer |-> <<"e", "n", "g", "i", "n", "e", "e", "r">>,
     etl |-> <<"e", "t", "l">>,
     platform |-> <<"p", "l", "a", "t", "f", "o", "r", "m">>,
     developer |-> <<"d", "e", "v", "e", "l", "o", "p", "e", "r">>,
     analyst |-> <<"a", "n", "a", "l", "y", "s", "t">>,
     scientist |-> <<"s", "c", "i", "e", "n", "t", "i", "s", "t">>,
     ml |-> <<"m", "l">>,
     ai |-> <<"a", "i">>,
     remote |-> <<"r", "e", "m", "o", "t", "e">>,
     Remote |-> <<"R", "e", "m", "o", "t", "e">>,
     work_from_home |->
        <<"w", "o", "r", "k", " ", "f", "r", "o", "m", " ", "h", "o", "m", "e">>,
     wfh |-> <<"w", "f", "h">>,
     anywhere |-> <<"a", "n", "y", "w", "h", "e", "r", "e">>,
     hybrid |-> <<"h", "y", "b", "r", "i", "d">>,
     onsite |-> <<"o", "n", "s", "i", "t", "e">>,
     Onsite |-> <<"O", "n", "s", "i", "t", "e">>,
     Pune |-> <<"P", "u", "n", "e">>,
     full_time |-> <<"f", "u", "l", "l", "-", "t", "i", "m", "e">>,
     fulltime |-> <<"f", "u", "l", "l", "t", "i", "m", "e">>,
     internship |-> <<"i", "n", "t", "e", "r", "n", "s", "h", "i", "p">>,
     intern |-> <<"i", "n", "t", "e", "r", "n">>,
     Full_time |-> <<"F", "u", "l", "l", "-", "t", "i", "m", "e">>,
     Contract |-> <<"C", "o", "n", "t", "r", "a", "c", "t">>]

\* The lower-case letter of each upper-case letter.
LowerOf ==
    ("A" :> "a") @@ ("B" :> "b") @@ ("C" :> "c") @@ ("D" :> "d") @@ ("E" :> "e")
    @@ ("F" :> "f") @@ ("G" :> "g") @@ ("H" :> "h") @@ ("I" :> "i") @@ ("J" :> "j")
    @@ ("K" :> "k") @@ ("L" :> "l") @@ ("M" :> "m") @@ ("N" :> "n") @@ ("O" :> "o")
    @@ ("P" :> "p") @@ ("Q" :> "q") @@ ("R" :> "r") @@ ("S" :> "s") @@ ("T" :> "t")
    @@ ("U" :> "u") @@ ("V" :> "v") @@ ("W" :> "w") @@ ("X" :> "x") @@ ("Y" :> "y")
    @@ ("Z" :> "z")

\* str.lower()
lower(s) ==
    [i \in 1..Len(s) |-> IF s[i] \in DOMAIN LowerOf THEN LowerOf[s[i]] ELSE s[i]]

\* a in b, for two strings
IsSubstr(a, b) ==
    \E i \in 0..(Len(b) - Len(a)) : SubSeq(b, i + 1, i + Len(a)) = a

\* SKILL_SYNONYMS: the entries whose base or synonyms the model's profiles use.
SKILL_SYNONYMS ==
    {[base |-> Txt.python, synonyms |-> {Txt.python3, Txt.python_3, Txt.py}],
     [base |-> Txt.sql,
      synonyms |-> {Txt.mysql, Txt.postgresql, Txt.postgres, Txt.sqlite, Txt.oracle}],
     [base |-> Txt.aws,
      synonyms |-> {Txt.amazon_web_services, Txt.amazon_web_services_hyphen}]}

\* ROLE_PATTERNS: the only key contained in a target role of the model; each
\* pattern is two words with \s* between them.
ROLE_PATTERNS ==
    {[key |-> Txt.data_engineer,
      patterns |-> {<<Txt.data, Txt.engineer>>, <<Txt.etl, Txt.engineer>>,
                    <<Txt.data, Txt.platform>>}]}

\* re.search(r"w1\s*w2", text): w1, any number of blanks, w2.
re_search(pattern, text) ==
    \E i \in 1..Len(text), n \in 0..Len(text) :
        LET a == i + Len(pattern[1])
            b == a + n
        IN  /\ b + Len(pattern[2]) - 1 <= Len(text)
            /\ SubSeq(text, i, a - 1) = pattern[1]
            /\ \A k \in a..(b - 1) : text[k] = " "
            /\ SubSeq(text, b, b + Len(pattern[2]) - 1) = pattern[2]

\* SequenceMatcher(None, a, b).ratio() of difflib, times 100000 (rounded down),
\* for the lower-cased target roles and titles of the model.
SequenceMatcher_ratio(a, b) ==
    IF a = b THEN 100000
    ELSE CASE a = lower(Txt.Python_Developer) /\ b = lower(Txt.ETL_Engineer) -> 35714
           [] a = lower(Txt.Python_Developer) /\ b = lower(Txt.AWS_Engineer) -> 28571
           [] a = lower(Txt.Python_Developer) /\ b = lower(Txt.Accountant) -> 15384
           [] a = lower(Txt.Java_Developer) /\ b = lower(Txt.Python_Developer) -> 66666
           [] a = lower(Txt.Java_Developer) /\ b = lower(Txt.ETL_Engineer) -> 38461
           [] a = lower(Txt.Java_Developer) /\ b = lower(Txt.AWS_Engineer) -> 46153
           [] a = lower(Txt.Java_Developer) /\ b = lower(Txt.Accountant) -> 16666
           [] a = lower(Txt.Data_Engineer) /\ b = lower(Txt.Python_Developer) -> 34482
           [] a = lower(Txt.Data_Engineer) /\ b = lower(Txt.ETL_Engineer) -> 80000
           [] a = lower(Txt.Data_Engineer) /\ b = lower(Txt.AWS_Engineer) -> 80000
           [] a = lower(Txt.Data_Engineer) /\ b = lower(Txt.Accountant) -> 34782

\* Lines 121-131: the lower-cased skills of the four categories, each with its
\* base name and all synonyms when it is a base or a synonym.
user_skills(skills_config) ==
    LET all == skills_config.programming \o skills_config.domains
               \o skills_config.tools \o skills_config.cloud
        own == {lower(all[k]) : k \in 1..Len(all)}
        hit == {e \in SKILL_SYNONYMS : \E s \in own : s = e.base \/ s \in e.synonyms}
    IN  own \cup UNION {{e.base} \cup e.synonyms : e \in hit}

\* Line 134: the text searched for skills.
job_text(job) ==
    lower(job.title \o <<" ">> \o job.description \o <<" ">> \o job.requirements)

\* _calculate_skill_score, in thousandths of a point.
_calculate_skill_score(job, profile) ==
    LET matched == Cardinality({s \in user_skills(profile.skills) :
                                   IsSubstr(s, job_text(job))})
        total_user_skills == Len(profile.skills.programming)
                             + Len(profile.skills.domains) + Len(profile.skills.tools)
        score == (matched * 100000) \div total_user_skills
    IN  IF total_user_skills = 0 THEN 50000
        ELSE IF score < 100000 THEN score ELSE 100000

\* Lines 166-183: the first target role, in list order, that matches the title
\* directly, by a pattern, or with a similarity above 0.6 decides the score;
\* 0 when no role does.
RECURSIVE role_loop(_, _)
role_loop(target_roles, job_title) ==
    IF target_roles = <<>> THEN 0
    ELSE LET target_lower == lower(Head(target_roles))
             similarity == SequenceMatcher_ratio(target_lower, job_title)
         IN  IF IsSubstr(target_lower, job_title) THEN 100000
             ELSE IF \E e \in ROLE_PATTERNS :
                        /\ IsSubstr(e.key, target_lower)
                        /\ \E pattern \in e.patterns : re_search(pattern, job_title)
                  THEN 100000
             ELSE IF similarity > 60000 THEN similarity
             ELSE role_loop(Tail(target_roles), job_title)

tech_keywords ==
    {Txt.engineer, Txt.developer, Txt.analyst, Txt.scientist, Txt.data, Txt.ml, Txt.ai}

\* _calculate_role_score, in thousandths of a point.
_calculate_role_score(job, profile) ==
    LET job_title == lower(job.title)
        by_role == role_loop(profile.roles, job_title)
    IN  IF by_role # 0 THEN by_role
        ELSE IF \E keyword \in tech_keywords : IsSubstr(keyword, job_title) THEN 50000
        ELSE 20000

\* _calculate_work_mode_score, in thousandths of a point.
_calculate_work_mode_score(job, profile) ==
    LET preferred_modes == [k \in 1..Len(profile.work_mode) |-> lower(profile.work_mode[k])]
        job_mode == lower(job.work_mode)
        job_location == lower(job.location)
        In(m) == IsSubstr(m, job_mode) \/ IsSubstr(m, job_location)
    IN  IF \E k \in 1..Len(preferred_modes) :
              \/ In(preferred_modes[k])
              \/ /\ preferred_modes[k] \in {Txt.remote, Txt.work_from_home, Txt.wfh}
                 /\ \E m \in {Txt.remote, Txt.work_from_home, Txt.wfh, Txt.anywhere} : In(m)
        THEN 100000
        ELSE IF /\ \E k \in 1..Len(preferred_modes) : preferred_modes[k] = Txt.hybrid
                /\ IsSubstr(Txt.hybrid, job_location)
        THEN 100000
        ELSE IF /\ job_mode = <<>>
                /\ ~\E m \in {Txt.remote, Txt.hybrid, Txt.onsite} : IsSubstr(m, job_location)
        THEN 70000
        ELSE 40000

\* _calculate_employment_score, in thousandths of a point.
_calculate_employment_score(job, profile) ==
    LET preferred_types == [k \in 1..Len(profile.employment_type) |->
                               lower(profile.employment_type[k])]
        job_type == lower(job.job_type)
        job_title == lower(job.title)
    IN  IF \E k \in 1..Len(preferred_types) :
              \/ IsSubstr(preferred_types[k], job_type)
              \/ preferred_types[k] = Txt.internship /\ IsSubstr(Txt.intern, job_title)
              \/ /\ preferred_types[k] = Txt.full_time
                 /\ (IsSubstr(Txt.full_time, job_type) \/ IsSubstr(Txt.fulltime, job_type))
        THEN 100000
        ELSE IF job_type = <<>> THEN 70000
        ELSE 50000

\* Lines 95-98 of match_job: the four sub-scores of a posting for a profile.
sub_scores(job, profile) ==
    [skill |-> _calculate_skill_score(job, profile),
     role |-> _calculate_role_score(job, profile),
     work_mode |-> _calculate_work_mode_score(job, profile),
     employment |-> _calculate_employment_score(job, profile)]

\* match_job on a posting and a profile: the weighted total of the sub-scores
\* (thousandths of a point, weights in percent), rounded to hundredths.
match_job_profile(job, profile, w) ==
    (match_job_total(sub_scores(job, profile), w) + 500) \div 1000

\* Stable sort of a sequence by descending key (list.sort(key, reverse=True)).
RECURSIVE InsertDesc(_, _, _)
InsertDesc(sorted, x, key) ==
    IF sorted = <<>> THEN <<x>>
    ELSE IF key[Head(sorted)] >= key[x]
         THEN <<Head(sorted)>> \o InsertDesc(Tail(sorted), x, key)
         ELSE <<x>> \o sorted

RECURSIVE SortDesc(_, _)
SortDesc(seq, key) ==
    IF seq = <<>> THEN <<>>
    ELSE InsertDesc(SortDesc(SubSeq(seq, 1, Len(seq) - 1), key), seq[Len(seq)], key)

\* Ids of a set in ascending order (the row order of an unordered query).
RECURSIVE IdOrder(_)
IdOrder(S) ==
    IF S = {} THEN <<>>
    ELSE LET m == CHOOSE x \in S : \A y \in S : x <= y
         IN  <<m>> \o IdOrder(S \ {m})


\* match_all_jobs: the ids of the new jobs scoring at least min_score, by
\* descending score.
match_all_jobs(rows) ==
    LET new == {id \in DOMAIN rows : rows[id].status = "new"}
        kept == {id \in new : match_job(id) >= min_score * 100}
    IN  SortDesc(IdOrder(kept), [id \in kept |-> match_job(id)])

\* match_all_jobs also stores the score of every kept job (committed when its
\* session closes).
match_all_jobs_rows(rows, t) ==
    [id \in DOMAIN rows |->
        IF rows[id].status = "new" /\ match_job(id) >= min_score * 100
        THEN FlushJob(rows[id], rows[id], [rows[id] EXCEPT !.match_score = match_job(id)], t)
        ELSE rows[id]]

\* ------------------------------------------------------- matching/scorer.py
\* Variant of _calculate_recency_bonus whose age limits are inclusive.
_calculate_recency_bonus_inclusive(job, t) ==
    IF job.posted_date = NoTime THEN 50
    ELSE LET age == t - job.posted_date
         IN  IF age <= 1 THEN 100
             ELSE IF age <= 3 THEN 80
             ELSE IF age <= 7 THEN 60
             ELSE IF age <= 14 THEN 40
             ELSE 20

\* _calculate_recency_bonus; posted_date NoTime is an unknown posting date.
_calculate_recency_bonus(job, t) ==
    IF job.posted_date = NoTime THEN 50
    ELSE LET age == t - job.posted_date
         IN  IF age < 1 THEN 100
             ELSE IF age < 3 THEN 80
             ELSE IF age < 7 THEN 60
             ELSE IF age < 14 THEN 40
             ELSE 20

\* calculate_priority_score, in thousandths of a point; score in hundredths.
calculate_priority_score(job, score, t) ==
    LET priority == score * 7 + _calculate_recency_bonus(job, t) * 150
                    + (IF job.is_easy_apply THEN 10000 ELSE 0) + 5000
    IN  IF priority < 100000 THEN priority ELSE 100000

\* The sort key of rank_jobs: the priority of a job that still has a row,
\* computed from the entry's score; an entry without priority sorts as 0.
rank_key(id, score_of, rows, t) ==
    IF id \in DOMAIN rows
    THEN calculate_priority_score(rows[id], score_of[id], t)
    ELSE 0

\* Variant of rank_jobs that sorts by the match score instead of the priority.
rank_jobs_by_score(ids, score_of, rows, t) ==
    LET S == {ids[k] : k \in 1..Len(ids)}
    IN  SortDesc(ids, [id \in S |-> score_of[id]])

\* rank_jobs: add the priorities, then sort by descending priority.
rank_jobs(ids, score_of, rows, t) ==
    LET S == {ids[k] : k \in 1..Len(ids)}
    IN  SortDesc(ids, [id \in S |-> rank_key(id, score_of, rows, t)])

\* Variant of filter_applied_jobs that drops the applied entries only.
filter_applied_jobs_not_applied(ids, status_of) ==
    LET Keep(id) == status_of[id] # "applied" IN SelectSeq(ids, Keep)

\* filter_applied_jobs: keep the entries whose recorded status is "new".
filter_applied_jobs(ids, status_of) ==
    LET Keep(id) == status_of[id] = "new" IN SelectSeq(ids, Keep)

\* get_application_queue: filter, then truncate to limit entries.
get_application_queue(ids, status_of, limit) ==
    LET filtered == filter_applied_jobs(ids, status_of)
    IN  SubSeq(filtered, 1, IF Len(filtered) < limit THEN Len(filtered) ELSE limit)

\* ------------------------------------------- intelligence/semantic_matcher.py
\* str.lower() on the skill names of the model.
Lower(s) ==
    IF s = "Python" THEN "python"
    ELSE IF s = "SQL" THEN "sql"
    ELSE IF s = "Spark" THEN "spark"
    ELSE s

\* Lines 255-262 and 284-295: the best similarity (in percent) of a job skill
\* to any resume skill, starting from 0.
RECURSIVE best_score(_, _, _)
best_score(job_skill, resume_skills, sim) ==
    IF resume_skills = <<>> THEN 0
    ELSE LET rest == best_score(job_skill, Tail(resume_skills), sim)
             here == sim[<<job_skill, Head(resume_skills)>>]
         IN  IF here > rest THEN here ELSE rest

\* Variant of skill_matches that compares the names as written.
skill_matches_case_sensitive(job_skill, resume_skills, threshold, sim) ==
    \/ \E k \in 1..Len(resume_skills) : job_skill = resume_skills[k]
    \/ best_score(job_skill, resume_skills, sim) >= threshold

\* Lines 243 and 264/297: a job skill matches when its lower-case form is among
\* the lower-cased resume skills, or else when its best similarity reaches the
\* threshold.
skill_matches(job_skill, resume_skills, threshold, sim) ==
    \/ \E k \in 1..Len(resume_skills) : Lower(job_skill) = Lower(resume_skills[k])
    \/ best_score(job_skill, resume_skills, sim) >= threshold

\* Lines 239-306: the loop over the job skills, appending each one to matching
\* or to missing.
RECURSIVE match_skills_loop(_, _, _, _, _)
match_skills_loop(todo, resume_skills, threshold, sim, acc) ==
    IF todo = <<>> THEN acc
    ELSE match_skills_loop(Tail(todo), resume_skills, threshold, sim,
            IF skill_matches(Head(todo), resume_skills, threshold, sim)
            THEN [acc EXCEPT !.matching = Append(@, Head(todo))]
            ELSE [acc EXCEPT !.missing = Append(@, Head(todo))])

\* match_skills; the score is in thousandths of a point.
match_skills(resume_skills, job_skills, threshold, sim) ==
    IF resume_skills = <<>> \/ job_skills = <<>>
    THEN [score |-> 0, matching |-> <<>>, missing |-> job_skills]
    ELSE LET r == match_skills_loop(job_skills, resume_skills, threshold, sim,
                                    [matching |-> <<>>, missing |-> <<>>])
         IN  [score |-> (Len(r.matching) * 100000) \div Len(job_skills),
              matching |-> r.matching, missing |-> r.missing]

\* ---------------------------------------------------- applicator/manager.py
\* application.auto_apply_min_score
auto_apply_min_score == 70

\* get_pending_applications: match, keep the qualified, rank, build the queue.
get_pending_applications(rows, t) ==
    LET matches == match_all_jobs(rows)
        Qualified(id) == match_job(id) >= auto_apply_min_score * 100
        qualified == SelectSeq(matches, Qualified)
        ranked == rank_jobs(qualified, [id \in DOMAIN rows |-> match_job(id)], rows, t)
    IN  get_application_queue(ranked, [id \in DOMAIN rows |-> rows[id].status], daily_limit)

\* _get_today_application_count: applications with applied_at today or later.
_get_today_application_count(apps, t) ==
    Cardinality({k \in 1..Len(apps) : apps[k].applied_at >= t})

\* Variant of Remaining that is one too large.
Remaining_off_by_one(limit, today_count) ==
    LET eff == IF limit = 0 THEN daily_limit ELSE limit
    IN  IF eff - today_count + 1 > 0 THEN eff - today_count + 1 ELSE 0

\* limit = limit or self.daily_limit (0 stands for an absent limit)
EffectiveLimit(limit) == IF limit = 0 THEN daily_limit ELSE limit

\* remaining = max(0, limit - today_count)
Remaining(limit, today_count) ==
    IF EffectiveLimit(limit) - today_count > 0 THEN EffectiveLimit(limit) - today_count ELSE 0

\* ------------------------------------------------- applicator/form_filler.py
\* _save_application: set the job's status to applied when its row exists ...
_save_application_jobs(rows, job_id, t) ==
    IF job_id \in DOMAIN rows
    THEN [rows EXCEPT ![job_id] = FlushJob(@, @, [@ EXCEPT !.status = "applied"], t)]
    ELSE rows

\* ... and insert the application record.
_save_application_apps(apps, job_id, status, t) ==
    session_commit_add(apps, <<[job_id |-> job_id, status |-> status, applied_at |-> t]>>, t)

NoStats == [none |-> TRUE]

\* No scoring function is being applied on its own.
NoCall == [op |-> "none", done |-> FALSE]

IdleLoc ==
    [op |-> "none", job_id |-> 0, new_status |-> None, notes |-> None,
     old_status |-> None, warned |-> FALSE, loaded |-> NoJob, sess |-> NoJob,
     sess_audit |-> <<>>, ret |-> None,
     limit |-> 0, today_count |-> 0, remaining |-> 0, pending |-> <<>>, i |-> 0,
     submitted |-> 0, failed |-> 0, skipped |-> 0, stats |-> NoStats]

Init ==
    /\ jobs = [id \in JobIds |-> NewJob(id)]
    /\ applications = <<>>
    /\ audit = <<>>
    /\ now = 0
    /\ dry_run \in BOOLEAN
    /\ daily_limit \in 1..MaxDailyLimit
    /\ calls = 0
    /\ pc = [p \in Procs |-> "idle"]
    /\ loc = [p \in Procs |-> IdleLoc]
    /\ fn = NoCall

\* Variant of update_status_call that writes its audit entry before looking
\* the job up.
update_status_call_log_first(p, cap, job_id, new_status, notes) ==
    /\ pc[p] = "idle"
    /\ calls < cap
    /\ calls' = calls + 1
    /\ audit' = session_commit_add(audit,
                    AuditLog_log(<<>>, "status_change", "job", job_id,
                                 [old_status |-> None, new_status |-> new_status,
                                  notes |-> notes], "success", None), now)
    /\ loc' = [loc EXCEPT ![p] =
                 [IdleLoc EXCEPT !.op = "update_status", !.job_id = job_id,
                                 !.new_status = new_status, !.notes = notes,
                                 !.ret = "False"]]
    /\ UNCHANGED <<jobs, applications, now, dry_run, daily_limit, fn, pc>>

\* ------------------------------------------- ApplicationTracker.update_status
\* Lines 65-108: load the job, return False when it is absent, otherwise
\* assign the fields and add the audit entry to the session.
update_status_call(p, cap, job_id, new_status, notes) ==
    /\ pc[p] = "idle"
    /\ calls < cap
    /\ calls' = calls + 1
    /\ IF job_id \notin DOMAIN jobs
       THEN /\ loc' = [loc EXCEPT ![p] =
                         [IdleLoc EXCEPT !.op = "update_status", !.job_id = job_id,
                                         !.new_status = new_status, !.notes = notes,
                                         !.ret = "False"]]
            /\ pc' = pc
       ELSE /\ loc' = [loc EXCEPT ![p] =
                         [IdleLoc EXCEPT
                            !.op = "update_status", !.job_id = job_id,
                            !.new_status = new_status, !.notes = notes,
                            !.old_status = jobs[job_id].status,
                            !.warned = InvalidTransition(jobs[job_id].status, new_status),
                            !.loaded = jobs[job_id],
                            !.sess = update_status_assign(jobs[job_id], new_status, notes, now),
                            !.sess_audit =
                                AuditLog_log(<<>>, "status_change", "job", job_id,
                                             [old_status |-> jobs[job_id].status,
                                              new_status |-> new_status,
                                              notes |-> notes],
                                             "success", None)]]
            /\ pc' = [pc EXCEPT ![p] = "us_commit"]
    /\ UNCHANGED <<jobs, applications, audit, now, dry_run, daily_limit, fn>>

\* Lines 110-112: session.commit() and return True.
update_status_commit(p) ==
    /\ pc[p] = "us_commit"
    /\ jobs' = session_commit_job(jobs, loc[p].job_id, loc[p].loaded, loc[p].sess, now)
    /\ audit' = session_commit_add(audit, loc[p].sess_audit, now)
    /\ loc' = [loc EXCEPT ![p].ret = "True", ![p].loaded = NoJob, ![p].sess = NoJob,
                          ![p].sess_audit = <<>>]
    /\ pc' = [pc EXCEPT ![p] = "idle"]
    /\ UNCHANGED <<applications, now, dry_run, daily_limit, fn, calls>>

\* Variant of update_status_raise in which the job change was already
\* committed when the exception is raised.
update_status_raise_after_job_commit(p) ==
    /\ pc[p] = "us_commit"
    /\ jobs' = session_commit_job(jobs, loc[p].job_id, loc[p].loaded, loc[p].sess, now)
    /\ audit' = session_rollback(audit, loc[p].sess_audit)
    /\ loc' = [loc EXCEPT ![p].ret = "raised", ![p].loaded = NoJob, ![p].sess = NoJob,
                          ![p].sess_audit = <<>>]
    /\ pc' = [pc EXCEPT ![p] = "idle"]
    /\ UNCHANGED <<applications, now, dry_run, daily_limit, fn, calls>>

\* An exception before the commit completes: get_session rolls back and re-raises.
update_status_raise(p) ==
    /\ pc[p] = "us_commit"
    /\ jobs' = session_rollback(jobs, [id \in {loc[p].job_id} |-> loc[p].sess])
    /\ audit' = session_rollback(audit, loc[p].sess_audit)
    /\ loc' = [loc EXCEPT ![p].ret = "raised", ![p].loaded = NoJob, ![p].sess = NoJob,
                          ![p].sess_audit = <<>>]
    /\ pc' = [pc EXCEPT ![p] = "idle"]
    /\ UNCHANGED <<applications, now, dry_run, daily_limit, fn, calls>>

\* get_applied_today: the jobs with status applied whose applied_at lies on the
\* current day (a NULL applied_at never satisfies the comparison).
get_applied_today(rows, t) ==
    Cardinality({id \in DOMAIN rows :
                    /\ rows[id].status = "applied"
                    /\ rows[id].applied_at # NoTime
                    /\ rows[id].applied_at >= t})

\* ---------------------------------------------- ApplicationTracker.log_action
log_action(p, cap, action, entity_id, status) ==
    /\ pc[p] = "idle"
    /\ calls < cap
    /\ calls' = calls + 1
    /\ audit' = session_commit_add(audit,
                    AuditLog_log(<<>>, action, "job", entity_id, None, status, None), now)
    /\ loc' = [loc EXCEPT ![p] = [IdleLoc EXCEPT !.op = "log_action", !.job_id = entity_id]]
    /\ UNCHANGED <<jobs, applications, now, dry_run, daily_limit, fn, pc>>

\* ------------------------------------------- ApplicationManager.apply_batch
\* Final return of apply_batch: the stats dictionary.
BatchStats(l) == [submitted |-> l.submitted, failed |-> l.failed, skipped |-> l.skipped]

\* Lines 74-82: the effective limit, today's count, the remaining quota, and
\* the early return when nothing remains.
apply_batch_call(p, cap, limit) ==
    /\ pc[p] = "idle"
    /\ calls < cap
    /\ calls' = calls + 1
    /\ LET today_count == _get_today_application_count(applications, now)
           remaining == Remaining(limit, today_count)
           l == [IdleLoc EXCEPT !.op = "apply_batch", !.limit = limit,
                                !.today_count = today_count, !.remaining = remaining]
       IN  IF remaining = 0
           THEN /\ loc' = [loc EXCEPT ![p] =
                             [l EXCEPT !.ret = "stats",
                                       !.stats = [submitted |-> 0, failed |-> 0,
                                                  limit_reached |-> TRUE]]]
                /\ pc' = pc
           ELSE /\ loc' = [loc EXCEPT ![p] = l]
                /\ pc' = [pc EXCEPT ![p] = "ab_pending"]
    /\ UNCHANGED <<jobs, applications, audit, now, dry_run, daily_limit, fn>>

\* Variant of apply_batch_pending that takes the whole queue, without cutting
\* it to the remaining quota.
apply_batch_pending_uncut(p) ==
    /\ pc[p] = "ab_pending"
    /\ LET pending == get_pending_applications(jobs, now)
       IN  /\ jobs' = match_all_jobs_rows(jobs, now)
           /\ IF pending = <<>>
              THEN /\ loc' = [loc EXCEPT ![p].ret = "stats",
                                         ![p].stats = BatchStats(loc[p])]
                   /\ pc' = [pc EXCEPT ![p] = "idle"]
              ELSE /\ loc' = [loc EXCEPT ![p].pending = pending, ![p].i = 1]
                   /\ pc' = [pc EXCEPT ![p] = "ab_loop"]
    /\ UNCHANGED <<applications, audit, now, dry_run, daily_limit, fn, calls>>

\* Line 85: pending = get_pending_applications(profile)[:remaining]; an empty
\* list ends the batch at once.
apply_batch_pending(p) ==
    /\ pc[p] = "ab_pending"
    /\ LET queue == get_pending_applications(jobs, now)
           n == IF Len(queue) < loc[p].remaining THEN Len(queue) ELSE loc[p].remaining
           pending == SubSeq(queue, 1, n)
       IN  /\ jobs' = match_all_jobs_rows(jobs, now)
           /\ IF pending = <<>>
              THEN /\ loc' = [loc EXCEPT ![p].ret = "stats",
                                         ![p].stats = BatchStats(loc[p])]
                   /\ pc' = [pc EXCEPT ![p] = "idle"]
              ELSE /\ loc' = [loc EXCEPT ![p].pending = pending, ![p].i = 1]
                   /\ pc' = [pc EXCEPT ![p] = "ab_loop"]
    /\ UNCHANGED <<applications, audit, now, dry_run, daily_limit, fn, calls>>

\* The end of one loop iteration: next entry, or return the stats.
NextItem(p, l) ==
    IF l.i >= Len(l.pending)
    THEN /\ loc' = [loc EXCEPT ![p] =
                      [l EXCEPT !.ret = "stats", !.stats = BatchStats(l),
                                !.loaded = NoJob]]
         /\ pc' = [pc EXCEPT ![p] = "idle"]
    ELSE /\ loc' = [loc EXCEPT ![p] = [l EXCEPT !.i = l.i + 1, !.loaded = NoJob]]
         /\ pc' = [pc EXCEPT ![p] = "ab_loop"]

\* Variant of apply_batch_check that dispatches every queued job that exists,
\* whatever its status.
apply_batch_check_unchecked(p) ==
    /\ pc[p] = "ab_loop"
    /\ LET job_id == loc[p].pending[loc[p].i]
       IN  IF job_id \notin DOMAIN jobs
           THEN NextItem(p, [loc[p] EXCEPT !.skipped = @ + 1])
           ELSE /\ loc' = [loc EXCEPT ![p].job_id = job_id, ![p].loaded = jobs[job_id]]
                /\ pc' = [pc EXCEPT ![p] = "apply"]
    /\ UNCHANGED <<jobs, applications, audit, now, dry_run, daily_limit, fn, calls>>

\* Lines 89-97: re-read the queued job; skip it unless it still has status new.
apply_batch_check(p) ==
    /\ pc[p] = "ab_loop"
    /\ LET job_id == loc[p].pending[loc[p].i]
       IN  IF job_id \notin DOMAIN jobs \/ jobs[job_id].status # "new"
           THEN NextItem(p, [loc[p] EXCEPT !.skipped = @ + 1])
           ELSE /\ loc' = [loc EXCEPT ![p].job_id = job_id, ![p].loaded = jobs[job_id]]
                /\ pc' = [pc EXCEPT ![p] = "apply"]
    /\ UNCHANGED <<jobs, applications, audit, now, dry_run, daily_limit, fn, calls>>

\* ------------------------------------------ ApplicationManager.apply_single
apply_single_call(p, cap, job_id) ==
    /\ pc[p] = "idle"
    /\ calls < cap
    /\ calls' = calls + 1
    /\ IF job_id \notin DOMAIN jobs
       THEN /\ loc' = [loc EXCEPT ![p] =
                         [IdleLoc EXCEPT !.op = "apply_single", !.job_id = job_id,
                                         !.ret = "False"]]
            /\ pc' = pc
       ELSE /\ loc' = [loc EXCEPT ![p] =
                         [IdleLoc EXCEPT !.op = "apply_single", !.job_id = job_id,
                                         !.loaded = jobs[job_id]]]
            /\ pc' = [pc EXCEPT ![p] = "apply"]
    /\ UNCHANGED <<jobs, applications, audit, now, dry_run, daily_limit, fn>>

\* ------------------------------------------------- FormFiller.apply_to_job
\* The value apply_to_job returns goes back to its caller: apply_batch counts
\* it (lines 102-105), apply_single returns it (line 127).
Return(p, success) ==
    IF loc[p].op = "apply_batch"
    THEN NextItem(p, IF success THEN [loc[p] EXCEPT !.submitted = @ + 1]
                     ELSE [loc[p] EXCEPT !.failed = @ + 1])
    ELSE /\ loc' = [loc EXCEPT ![p].ret = IF success THEN "True" ELSE "False",
                               ![p].loaded = NoJob]
         /\ pc' = [pc EXCEPT ![p] = "idle"]

\* Variant of apply_to_job_raise without the try/except: the exception leaves
\* the caller too.
apply_to_job_raise_uncaught(p) ==
    /\ pc[p] = "apply"
    /\ loc' = [loc EXCEPT ![p].ret = "raised", ![p].loaded = NoJob]
    /\ pc' = [pc EXCEPT ![p] = "idle"]
    /\ UNCHANGED <<jobs, applications, audit, now, dry_run, daily_limit, fn, calls>>

\* Lines 99-101: an exception inside apply_to_job (the cover letter generator
\* or the browser raises) is caught and reported as False.
apply_to_job_raise(p) ==
    /\ pc[p] = "apply"
    /\ Return(p, FALSE)
    /\ UNCHANGED <<jobs, applications, audit, now, dry_run, daily_limit, fn, calls>>

\* Variant of apply_to_job_dry_run that saves only while the job's row still
\* has status new.
apply_to_job_dry_run_if_new(p) ==
    /\ pc[p] = "apply"
    /\ dry_run
    /\ IF jobs[loc[p].job_id].status = "new"
       THEN /\ jobs' = _save_application_jobs(jobs, loc[p].job_id, now)
            /\ applications' =
                 _save_application_apps(applications, loc[p].job_id, "dry_run", now)
       ELSE UNCHANGED <<jobs, applications>>
    /\ Return(p, TRUE)
    /\ UNCHANGED <<audit, now, dry_run, daily_limit, fn, calls>>

\* Lines 83-86: dry run saves the application and returns True.
apply_to_job_dry_run(p) ==
    /\ pc[p] = "apply"
    /\ dry_run
    /\ jobs' = _save_application_jobs(jobs, loc[p].job_id, now)
    /\ applications' = _save_application_apps(applications, loc[p].job_id, "dry_run", now)
    /\ Return(p, TRUE)
    /\ UNCHANGED <<audit, now, dry_run, daily_limit, fn, calls>>

\* Lines 89-97, easy apply: the browser flow succeeds or not; a success is saved.
apply_to_job_easy(p, success) ==
    /\ pc[p] = "apply"
    /\ ~dry_run
    /\ loc[p].loaded.is_easy_apply
    /\ IF success
       THEN /\ jobs' = _save_application_jobs(jobs, loc[p].job_id, now)
            /\ applications' =
                 _save_application_apps(applications, loc[p].job_id, "submitted", now)
       ELSE UNCHANGED <<jobs, applications>>
    /\ Return(p, success)
    /\ UNCHANGED <<audit, now, dry_run, daily_limit, fn, calls>>

\* Lines 208-220: _external_apply saves the prepared materials and returns True.
_external_apply(p) ==
    /\ pc[p] = "apply"
    /\ ~dry_run
    /\ ~loc[p].loaded.is_easy_apply
    /\ jobs' = _save_application_jobs(jobs, loc[p].job_id, now)
    /\ applications' =
         _save_application_apps(applications, loc[p].job_id, "pending_external", now)
    /\ pc' = [pc EXCEPT ![p] = "apply_saved"]
    /\ UNCHANGED <<audit, now, dry_run, daily_limit, fn, calls, loc>>

\* Lines 94-97 after _external_apply returned True: the application is saved.
apply_to_job_external_save(p) ==
    /\ pc[p] = "apply_saved"
    /\ jobs' = _save_application_jobs(jobs, loc[p].job_id, now)
    /\ applications' =
         _save_application_apps(applications, loc[p].job_id, "submitted", now)
    /\ Return(p, TRUE)
    /\ UNCHANGED <<audit, now, dry_run, daily_limit, fn, calls>>

\* The calendar day advances.
NextDay ==
    /\ now < MaxDay
    /\ now' = now + 1
    /\ UNCHANGED <<jobs, applications, audit, dry_run, daily_limit, fn, calls, pc, loc>>

\* limit arguments of apply_batch: absent (0), or 1 .. MaxDailyLimit
LimitInputs == 0..MaxDailyLimit

Step(p, cap) ==
    \/ \E id \in RequestIds, s \in StatusInputs, n \in NotesInputs :
          update_status_call(p, cap, id, s, n)
    \/ update_status_commit(p)
    \/ update_status_raise(p)
    \/ \E id \in JobIds, s \in {"success", "failed"} : log_action(p, cap, "note", id, s)
    \/ \E limit \in LimitInputs : apply_batch_call(p, cap, limit)
    \/ apply_batch_pending(p)
    \/ apply_batch_check(p)
    \/ \E id \in RequestIds : apply_single_call(p, cap, id)
    \/ apply_to_job_raise(p)
    \/ apply_to_job_dry_run(p)
    \/ \E success \in BOOLEAN : apply_to_job_easy(p, success)
    \/ _external_apply(p)
    \/ apply_to_job_external_save(p)

\* One process issuing operations one after another.
Next == Step(1, MaxCalls) \/ NextDay

Spec == Init /\ [][Next]_vars

\* Several processes (scheduler, manual command, API background task) at once.
NextConc == (\E p \in Procs : Step(p, MaxConcCalls)) \/ NextDay

SpecConc == Init /\ [][NextConc]_vars

\* ------------------------------------------- scoring functions on their own
\* Sequences without repetition over the ids of S.
DistinctSeqs(S) ==
    {q \in UNION {[1..n -> S] : n \in 0..Cardinality(S)} :
        \A a, b \in DOMAIN q : a # b => q[a] # q[b]}

SeqsUpTo(S, n) == UNION {[1..k -> S] : k \in 0..n}

\* Match scores of qualified entries, in hundredths.
QueueScoreInputs == {7000, 8000}
\* Recorded statuses of the entries of a ranked list.
QueueStatusInputs == {"new", "applied", "rejected"}

\* A call of the queue construction of get_pending_applications (lines
\* 57-60): a list of match entries, the score and the recorded status of each
\* entry, the Job rows, the limit, and the number submitted today.
QueueCall ==
    \E ids \in DistinctSeqs(RequestIds) :
      \E sc \in [{ids[k] : k \in DOMAIN ids} -> QueueScoreInputs],
         st \in [{ids[k] : k \in DOMAIN ids} -> QueueStatusInputs],
         easy \in [JobIds -> BOOLEAN],
         limit \in 0..MaxDailyLimit,
         sub \in 0..MaxDailyLimit :
        fn = [op |-> "get_application_queue", done |-> FALSE, ids |-> ids,
              score_of |-> sc, status_of |-> st,
              rows |-> [id \in JobIds |-> [NewJob(id) EXCEPT !.is_easy_apply = easy[id]]],
              t |-> 0, limit |-> limit, submitted_today |-> sub,
              ranked |-> <<>>, out |-> <<>>]

\* Sub-score values the four scorers of JobMatcher return.
SubScoreInputs ==
    [skill : {0, 50, 100}, role : {20, 50, 100},
     work_mode : {40, 70, 100}, employment : {50, 70, 100}]

\* matching.weights of the configuration, in percent: the defaults, or any
\* four values (the constructor does not validate them).
WeightInputs ==
    {DefaultWeights} \cup
    [skills : {0, 50, 100}, role : {0, 50, 100},
     work_mode : {0, 50, 100}, employment : {0, 50, 100}]

MatchJobCall ==
    \E s \in SubScoreInputs, w \in WeightInputs :
        fn = [op |-> "match_job", done |-> FALSE, scores |-> s, weights |-> w, out |-> 0]

\* The day on which a priority is computed, and the posting dates tried.
PriorityDay == 20
PostedDateInputs == {NoTime, 21, 20, 19, 18, 17, 14, 13, 7, 6, 0}
PriorityScoreInputs == {0, 5000, 7100, 9000, 10000}

PriorityCall ==
    \E d \in PostedDateInputs, e \in BOOLEAN, sc \in PriorityScoreInputs :
        fn = [op |-> "calculate_priority_score", done |-> FALSE,
              job |-> [posted_date |-> d, is_easy_apply |-> e], score |-> sc,
              t |-> PriorityDay, out |-> 0]

MaxSkills == 2
ResumeSkillInputs == {"Python", "python", "SQL"}
JobSkillInputs == {"Python", "Spark"}
\* Similarities (percent) and thresholds tried.
SimInputs == {50, 70}
ThresholdInputs == {70, 80}

MatchSkillsCall ==
    \E r \in SeqsUpTo(ResumeSkillInputs, MaxSkills),
       j \in SeqsUpTo(JobSkillInputs, MaxSkills),
       th \in ThresholdInputs,
       sim \in [JobSkillInputs \X ResumeSkillInputs -> SimInputs] :
        fn = [op |-> "match_skills", done |-> FALSE, resume_skills |-> r,
              job_skills |-> j, threshold |-> th, sim |-> sim,
              out |-> [score |-> 0, matching |-> <<>>, missing |-> <<>>]]

\* Profiles and postings tried by match_job: skill lists per category, target
\* role lists in either order, preferences, and posting texts.
ProgrammingInputs == {<<>>, <<Txt.Python>>, <<Txt.Python, Txt.SQL>>}
CloudInputs == {<<>>, <<Txt.AWS>>}
RoleInputs == {Txt.Python_Developer, Txt.Java_Developer, Txt.Data_Engineer}
RoleListInputs == {q \in SeqsUpTo(RoleInputs, 2) : Len(q) < 2 \/ q[1] # q[2]}
WorkModePrefInputs == {<<>>, <<Txt.remote>>}
EmploymentPrefInputs == {<<>>, <<Txt.full_time>>}
TitleInputs == {Txt.Python_Developer, Txt.ETL_Engineer, Txt.AWS_Engineer, Txt.Accountant}
DescriptionInputs == {Txt.empty, Txt.Requires_Python_and_Pandas}
JobWorkModeInputs == {Txt.empty, Txt.Onsite}
LocationInputs == {Txt.empty, Txt.Remote}
JobTypeInputs == {Txt.empty, Txt.Full_time}

MatchJobProfileCall ==
    \E programming \in ProgrammingInputs, cloud \in CloudInputs,
       roles \in RoleListInputs, work_mode \in WorkModePrefInputs,
       employment_type \in EmploymentPrefInputs, title \in TitleInputs,
       description \in DescriptionInputs, job_mode \in JobWorkModeInputs,
       location \in LocationInputs, job_type \in JobTypeInputs :
        fn = [op |-> "match_job_profile", done |-> FALSE,
              profile |-> [skills |-> [programming |-> programming, domains |-> <<>>,
                                       tools |-> <<>>, cloud |-> cloud],
                           roles |-> roles, work_mode |-> work_mode,
                           employment_type |-> employment_type],
              job |-> [title |-> title, description |-> description,
                       requirements |-> Txt.empty, work_mode |-> job_mode,
                       location |-> location, job_type |-> job_type],
              scores |-> [skill |-> 0, role |-> 0, work_mode |-> 0, employment |-> 0],
              out |-> 0]

InitScoring ==
    /\ jobs = [id \in JobIds |-> NewJob(id)]
    /\ applications = <<>>
    /\ audit = <<>>
    /\ now = 0
    /\ dry_run = FALSE
    /\ daily_limit = MaxDailyLimit
    /\ calls = 0
    /\ pc = [p \in Procs |-> "idle"]
    /\ loc = [p \in Procs |-> IdleLoc]
    /\ \/ QueueCall \/ MatchJobCall \/ PriorityCall \/ MatchSkillsCall
       \/ MatchJobProfileCall

\* manager.py lines 57-60: rank the entries, then build the queue.
get_application_queue_call ==
    /\ fn.op = "get_application_queue" /\ ~fn.done
    /\ LET ranked == rank_jobs(fn.ids, fn.score_of, fn.rows, fn.t)
       IN  fn' = [fn EXCEPT !.done = TRUE, !.ranked = ranked,
                            !.out = get_application_queue(ranked, fn.status_of, fn.limit)]
    /\ UNCHANGED <<jobs, applications, audit, now, dry_run, daily_limit, calls, pc, loc>>

match_job_call ==
    /\ fn.op = "match_job" /\ ~fn.done
    /\ fn' = [fn EXCEPT !.done = TRUE, !.out = match_job_total(fn.scores, fn.weights)]
    /\ UNCHANGED <<jobs, applications, audit, now, dry_run, daily_limit, calls, pc, loc>>

calculate_priority_score_call ==
    /\ fn.op = "calculate_priority_score" /\ ~fn.done
    /\ fn' = [fn EXCEPT !.done = TRUE,
                        !.out = calculate_priority_score(fn.job, fn.score, fn.t)]
    /\ UNCHANGED <<jobs, applications, audit, now, dry_run, daily_limit, calls, pc, loc>>

match_skills_call ==
    /\ fn.op = "match_skills" /\ ~fn.done
    /\ fn' = [fn EXCEPT !.done = TRUE,
                        !.out = match_skills(fn.resume_skills, fn.job_skills,
                                             fn.threshold, fn.sim)]
    /\ UNCHANGED <<jobs, applications, audit, now, dry_run, daily_limit, calls, pc, loc>>

\* matcher.py lines 95-108: the sub-scores of the posting, then the total.
match_job_profile_call ==
    /\ fn.op = "match_job_profile" /\ ~fn.done
    /\ fn' = [fn EXCEPT !.done = TRUE,
                        !.scores = sub_scores(fn.job, fn.profile),
                        !.out = match_job_profile(fn.job, fn.profile, DefaultWeights)]
    /\ UNCHANGED <<jobs, applications, audit, now, dry_run, daily_limit, calls, pc, loc>>

NextScoring ==
    \/ get_application_queue_call
    \/ match_job_call
    \/ calculate_priority_score_call
    \/ match_skills_call
    \/ match_job_profile_call

SpecScoring == InitScoring /\ [][NextScoring]_vars

\* ------------------------------------------------------------------ claims
Terminal == {"rejected", "accepted"}

\* The status_change entry update_status writes for a call of process p.
StatusChangeEntry(l, t) ==
    [action |-> "status_change", entity_type |-> "job", entity_id |-> l.job_id,
     details |-> [old_status |-> l.old_status, new_status |-> l.new_status,
                  notes |-> l.notes],
     status |-> "success", error_message |-> None, created_at |-> t]

\* A step of an update_status call of process p.
UpdateStatusStep(p) ==
    \/ pc[p] = "us_commit"
    \/ pc[p] = "idle" /\ calls' = calls + 1 /\ loc'[p].op = "update_status"

\* C1: every step of update_status either leaves the database as it is, or
\* changes exactly one job (its status becomes new_status) together with
\* exactly one new status_change audit entry for that job; there is no step,
\* also when the call raises before its commit, that changes the job without
\* the entry or adds the entry without the job change.
C1_UpdateStatusAtomic ==
    [][\A p \in Procs :
         UpdateStatusStep(p) =>
            /\ applications' = applications
            /\ \/ jobs' = jobs /\ audit' = audit
               \/ /\ loc[p].job_id \in DOMAIN jobs
                  /\ audit' = Append(audit, StatusChangeEntry(loc[p], now))
                  /\ jobs'[loc[p].job_id].status = loc[p].new_status
                  /\ \A id \in DOMAIN jobs \ {loc[p].job_id} : jobs'[id] = jobs[id]]_vars

\* C1 witness: one update_status call committed its change with its entry, and
\* a later call raised before its commit.
C1_Witness ==
    \E p \in Procs :
        /\ loc[p].op = "update_status" /\ loc[p].ret = "raised"
        /\ Len(audit) = 1 /\ audit[1].action = "status_change"
        /\ jobs[audit[1].entity_id].status = audit[1].details.new_status

\* C2 (as claimed): every job's status is one of the eight workflow states.
C2_StatusInWorkflowStates ==
    \A id \in DOMAIN jobs : jobs[id].status \in WorkflowStates

\* C3 (as claimed): every step that changes a job's status appends one audit
\* entry for that job capturing the old and the new status.
C3_StatusChangeAudited ==
    [][\A id \in DOMAIN jobs :
         jobs'[id].status # jobs[id].status =>
            /\ Len(audit') = Len(audit) + 1
            /\ audit'[Len(audit')].entity_id = id
            /\ audit'[Len(audit')].details.old_status = jobs[id].status
            /\ audit'[Len(audit')].details.new_status = jobs'[id].status]_vars

\* C4 (as claimed): no step of an apply_batch call brings the number of
\* application records of the current day above the daily limit.
C4_DailyLimitRespected ==
    [][\A p \in Procs :
         (loc[p].op = "apply_batch" /\ applications' # applications) =>
            _get_today_application_count(applications', now') <= daily_limit]_vars

\* C5: an update_status call whose new_status is not an allowed next status of
\* the job's current status, once it has returned, has returned True, has set
\* the job's status to new_status and has written its audit entry; the
\* invalid transition is only flagged.
C5_InvalidTransitionApplied ==
    \A p \in Procs :
        (/\ loc[p].op = "update_status" /\ pc[p] = "idle"
         /\ loc[p].job_id \in DOMAIN jobs
         /\ loc[p].ret # "raised"
         /\ loc[p].new_status \notin
               (IF loc[p].old_status \in DOMAIN STATUS_FLOW
                THEN STATUS_FLOW[loc[p].old_status] ELSE {loc[p].new_status}))
        => /\ loc[p].ret = "True"
           /\ loc[p].warned
           /\ jobs[loc[p].job_id].status = loc[p].new_status
           /\ audit # <<>>
           /\ audit[Len(audit)].details = [old_status |-> loc[p].old_status,
                                           new_status |-> loc[p].new_status,
                                           notes |-> loc[p].notes]

\* C5 witness: an invalid transition (accepted straight from new) was applied.
C5_Witness ==
    \E p \in Procs :
        /\ loc[p].op = "update_status" /\ loc[p].ret = "True"
        /\ loc[p].old_status = "new" /\ loc[p].new_status = "accepted"
        /\ jobs[loc[p].job_id].status = "accepted"

\* C6 (as claimed): a job in rejected or accepted keeps its status.
C6_TerminalKept ==
    [][\A id \in DOMAIN jobs :
         jobs[id].status \in Terminal => jobs'[id].status = jobs[id].status]_vars

\* C6 (amended): rejected and accepted have no allowed next status, so every
\* update_status call on a job in one of them is flagged as an invalid
\* transition; the call is applied all the same.
C6_TerminalOnlyFlagged ==
    \A p \in Procs :
        (/\ loc[p].op = "update_status" /\ pc[p] = "idle"
         /\ loc[p].old_status \in Terminal
         /\ loc[p].ret = "True")
        => /\ loc[p].warned
           /\ jobs[loc[p].job_id].status = loc[p].new_status

\* C6 witness: a rejected job was moved on to another status.
C6_Witness ==
    \E p \in Procs :
        /\ loc[p].op = "update_status" /\ loc[p].ret = "True"
        /\ loc[p].old_status = "rejected" /\ loc[p].new_status = "approved"
        /\ jobs[loc[p].job_id].status = "approved"

\* C7: the audit log only grows, and every entry written stays as it was.
C7_AuditAppendOnly ==
    [][/\ Len(audit') >= Len(audit)
       /\ SubSeq(audit', 1, Len(audit)) = audit]_vars

\* C7 witness: the log holds a status_change entry followed by a logged action.
C7_Witness ==
    /\ Len(audit) = 2
    /\ audit[1].action = "status_change"
    /\ audit[2].action = "note"

\* C8: update_status for an id without a job row returns False at once and
\* changes no job, application or audit row.
C8_UpdateStatusNotFound ==
    [][\A p \in Procs :
         (/\ pc[p] = "idle" /\ calls' = calls + 1
          /\ loc'[p].op = "update_status"
          /\ loc'[p].job_id \notin DOMAIN jobs)
         => /\ loc'[p].ret = "False"
            /\ pc'[p] = "idle"
            /\ jobs' = jobs /\ audit' = audit /\ applications' = applications]_vars

\* C8 witness: a call for the missing id has returned False.
C8_Witness ==
    \E p \in Procs :
        /\ loc[p].op = "update_status" /\ loc[p].job_id \notin DOMAIN jobs
        /\ loc[p].ret = "False" /\ pc[p] = "idle"

\* C9: apply_batch called when today's count has reached the effective limit
\* returns submitted 0, failed 0, limit_reached true at once: no job is
\* dispatched and no job, application or audit row changes.
C9_QuotaExhausted ==
    [][\A p \in Procs :
         (/\ pc[p] = "idle" /\ calls' = calls + 1
          /\ loc'[p].op = "apply_batch"
          /\ Cardinality({k \in 1..Len(applications) : applications[k].applied_at >= now})
               >= (IF loc'[p].limit = 0 THEN daily_limit ELSE loc'[p].limit))
         => /\ loc'[p].ret = "stats"
            /\ loc'[p].stats = [submitted |-> 0, failed |-> 0, limit_reached |-> TRUE]
            /\ pc'[p] = "idle"
            /\ jobs' = jobs /\ audit' = audit /\ applications' = applications]_vars

\* C9 witness: a batch found the quota used up by today's applications.
C9_Witness ==
    \E p \in Procs :
        /\ loc[p].op = "apply_batch" /\ pc[p] = "idle" /\ loc[p].ret = "stats"
        /\ loc[p].stats = [submitted |-> 0, failed |-> 0, limit_reached |-> TRUE]
        /\ loc[p].today_count >= 1

\* A dispatch of the batch of process p that fails: apply_to_job returns False.
FailedDispatch(p) ==
    /\ loc[p].op = "apply_batch" /\ pc[p] = "apply" /\ pc'[p] # "apply"
    /\ applications' = applications

\* C10: a failed dispatch adds one to failed, changes no job, and the batch
\* goes on with the next queued job (or returns its stats after the last
\* one); a batch that returns has counted every queued job as submitted,
\* failed or skipped.
C10_FailureDoesNotAbort ==
    [][\A p \in Procs :
         /\ FailedDispatch(p) =>
              /\ loc'[p].failed = loc[p].failed + 1
              /\ loc'[p].submitted = loc[p].submitted
              /\ loc'[p].skipped = loc[p].skipped
              /\ jobs' = jobs
              /\ IF loc[p].i < Len(loc[p].pending)
                 THEN pc'[p] = "ab_loop" /\ loc'[p].i = loc[p].i + 1
                 ELSE pc'[p] = "idle" /\ loc'[p].ret = "stats"
         /\ (loc'[p].op = "apply_batch" /\ pc[p] # "idle" /\ pc'[p] = "idle") =>
              /\ loc'[p].ret = "stats"
              /\ loc'[p].submitted + loc'[p].failed + loc'[p].skipped
                   = Len(loc'[p].pending)]_vars

\* C10 witness: the first queued job failed and the second one was then
\* submitted.
C10_Witness ==
    \E p \in Procs :
        /\ loc[p].op = "apply_batch" /\ pc[p] = "idle" /\ loc[p].ret = "stats"
        /\ loc[p].pending = <<1, 2>>
        /\ loc[p].failed = 1 /\ loc[p].submitted = 1
        /\ jobs[1].status = "new" /\ jobs[2].status = "applied"

\* C11 (as claimed): every failed dispatch in apply_batch appends one audit
\* entry for that job, with status "failed" and the error message.
C11_FailedDispatchAudited ==
    [][\A p \in Procs :
         FailedDispatch(p) =>
            /\ Len(audit') = Len(audit) + 1
            /\ audit'[Len(audit')].entity_id = loc[p].job_id
            /\ audit'[Len(audit')].status = "failed"
            /\ audit'[Len(audit')].error_message # None]_vars

\* The four fields of the result apply_batch is specified to return.
BatchResultFields == {"submitted", "failed", "skipped", "limit_reached"}

\* C12 (as claimed): every result apply_batch returns carries the four fields
\* submitted, failed, skipped and limit_reached.
C12_BatchResultComplete ==
    \A p \in Procs :
        (loc[p].op = "apply_batch" /\ pc[p] = "idle" /\ loc[p].ret = "stats")
        => DOMAIN loc[p].stats = BatchResultFields

\* A queue construction that has been carried out.
QueueBuilt == fn.op = "get_application_queue" /\ fn.done

\* C13 (as claimed): the application queue never holds more than
\* max(0, daily_limit - submitted_today) entries.
C13_QueueWithinRemaining ==
    QueueBuilt =>
        Len(fn.out) <= (IF fn.limit - fn.submitted_today > 0
                        THEN fn.limit - fn.submitted_today ELSE 0)

\* C14: the application queue holds no job whose recorded status is not new,
\* whatever entries the ranked input list holds.
C14_QueueOnlyNew ==
    QueueBuilt => \A k \in 1..Len(fn.out) : fn.status_of[fn.out[k]] = "new"

\* C14 witness: the ranked list held an applied and a rejected entry before a
\* new one, and the queue holds the new one.
C14_Witness ==
    /\ QueueBuilt
    /\ Len(fn.ranked) = 3
    /\ fn.status_of[fn.ranked[1]] = "applied"
    /\ fn.status_of[fn.ranked[2]] = "rejected"
    /\ fn.out = <<fn.ranked[3]>>

\* Position of an entry in the list handed to rank_jobs.
InputPos(id) == CHOOSE k \in DOMAIN fn.ids : fn.ids[k] = id

\* C15: the queue built from any list of entries (rank_jobs establishes the
\* order, get_application_queue keeps it) is in descending order of priority,
\* and entries of equal priority keep the order they had in the input list.
C15_QueueOrdered ==
    QueueBuilt =>
        \A a, b \in 1..Len(fn.out) :
            a < b =>
              LET pa == rank_key(fn.out[a], fn.score_of, fn.rows, fn.t)
                  pb == rank_key(fn.out[b], fn.score_of, fn.rows, fn.t)
              IN  /\ pa >= pb
                  /\ pa = pb => InputPos(fn.out[a]) < InputPos(fn.out[b])

\* C15 witness: the input list was not in order, and the queue holds two
\* entries of equal priority.
C15_Witness ==
    /\ QueueBuilt
    /\ fn.ranked # fn.ids
    /\ Len(fn.out) = 2
    /\ rank_key(fn.out[1], fn.score_of, fn.rows, fn.t)
         = rank_key(fn.out[2], fn.score_of, fn.rows, fn.t)

\* C16 (as claimed): whatever weights the configuration supplies, match_job
\* returns a value between 0 and 100 (scores are in hundredths).
C16_MatchJobInRange ==
    (fn.op = "match_job" /\ fn.done) => (0 <= fn.out /\ fn.out <= 10000)

\* The recency bonus as the claim states it, for a posting of the given age.
ClaimedRecencyBonus(posted_date, t) ==
    CASE posted_date = NoTime -> 50
      [] posted_date # NoTime /\ t - posted_date < 1 -> 100
      [] posted_date # NoTime /\ t - posted_date >= 1 /\ t - posted_date < 3 -> 80
      [] posted_date # NoTime /\ t - posted_date >= 3 /\ t - posted_date < 7 -> 60
      [] posted_date # NoTime /\ t - posted_date >= 7 /\ t - posted_date < 14 -> 40
      [] posted_date # NoTime /\ t - posted_date >= 14 -> 20

\* The priority as the claim states it, in thousandths; score in hundredths.
ClaimedPriority(job, score, t) ==
    LET raw == 7 * score + 150 * ClaimedRecencyBonus(job.posted_date, t)
               + (IF job.is_easy_apply THEN 10000 ELSE 0) + 5000
    IN  IF raw > 100000 THEN 100000 ELSE raw

\* C17: the priority equals min(100, 0.7 * match_score + 0.15 * recency bonus
\* + 10 for easy apply + 5) with the recency bonus 100/80/60/40/20 for an age
\* below 1, 3, 7, 14 days and from 14 days on, and 50 for an unknown posting
\* date; it never exceeds 100, and a higher match score with the same posting
\* date and easy-apply flag never gives a lower priority.
C17_PriorityFormula ==
    (fn.op = "calculate_priority_score" /\ fn.done) =>
        /\ fn.out = ClaimedPriority(fn.job, fn.score, fn.t)
        /\ fn.out <= 100000
        /\ \A s2 \in PriorityScoreInputs :
              s2 >= fn.score => calculate_priority_score(fn.job, s2, fn.t) >= fn.out

\* C17 witness: match score 71, posted 2 days ago, easy apply: priority 76.7.
C17_Witness ==
    /\ fn.op = "calculate_priority_score" /\ fn.done
    /\ fn.score = 7100 /\ fn.t - fn.job.posted_date = 2 /\ fn.job.is_easy_apply
    /\ fn.out = 76700

\* C18: match_skills puts every job skill, in order, into matching when it is a
\* case-insensitive member of the resume skills or else when some resume skill
\* is similar to it by at least the threshold, and into missing otherwise;
\* no skill is in both lists, and the score is the share of matching skills
\* among the job skills, times 100 (in thousandths here).
C18_MatchSkillsPartition ==
    (fn.op = "match_skills" /\ fn.done) =>
        LET r == fn.resume_skills
            j == fn.job_skills
            IsMatch(s) ==
                \/ \E k \in 1..Len(r) : Lower(s) = Lower(r[k])
                \/ \E k \in 1..Len(r) : fn.sim[<<s, r[k]>>] >= fn.threshold
            IsMissing(s) == ~IsMatch(s)
        IN  /\ fn.out.matching = SelectSeq(j, IsMatch)
            /\ fn.out.missing = SelectSeq(j, IsMissing)
            /\ Len(fn.out.matching) + Len(fn.out.missing) = Len(j)
            /\ \A a \in 1..Len(fn.out.matching), b \in 1..Len(fn.out.missing) :
                  fn.out.matching[a] # fn.out.missing[b]
            /\ j # <<>> => fn.out.score = (Len(fn.out.matching) * 100000) \div Len(j)

\* C18 witness: resume [Python, SQL] against job [Python, Spark], Spark below
\* the threshold: score 50, matching [Python], missing [Spark].
C18_Witness ==
    /\ fn.op = "match_skills" /\ fn.done
    /\ fn.resume_skills = <<"Python", "SQL">>
    /\ fn.job_skills = <<"Python", "Spark">>
    /\ fn.out = [score |-> 50000, matching |-> <<"Python">>, missing |-> <<"Spark">>]

\* The processes whose current or last operation is an apply_batch run.
BatchProcs == {p \in Procs : loc[p].op = "apply_batch"}

\* Sum of f over the processes of S.
RECURSIVE SumOver(_, _)
SumOver(S, f) ==
    IF S = {} THEN 0
    ELSE LET p == CHOOSE x \in S : TRUE IN f[p] + SumOver(S \ {p}, f)

\* C19: a batch bounds its dispatches by the room it computed from the count
\* it read at its start (remaining = max(0, limit - count read)), not by the
\* count at the time of a dispatch: nothing is reserved, so two batches that
\* read the same count each use the full room (and, as the witness shows,
\* together pass the daily limit).
C19_QuotaReadNotReserved ==
    \A p \in BatchProcs :
        /\ loc[p].remaining =
             (IF EffectiveLimit(loc[p].limit) - loc[p].today_count > 0
              THEN EffectiveLimit(loc[p].limit) - loc[p].today_count ELSE 0)
        /\ Len(loc[p].pending) <= loc[p].remaining
        /\ loc[p].submitted + loc[p].failed + loc[p].skipped <= Len(loc[p].pending)

\* C19 witness: two dry-run batches without a limit argument read the same
\* count, each saw room, each submitted, no job was applied to twice, and
\* today's applications exceed the daily limit.
C19_Witness ==
    /\ dry_run
    /\ BatchProcs = Procs
    /\ \A p \in Procs : /\ loc[p].limit = 0 /\ loc[p].today_count = loc[1].today_count
                         /\ loc[p].remaining >= 1 /\ loc[p].submitted >= 1
    /\ \A a, b \in 1..Len(applications) :
          a # b => applications[a].job_id # applications[b].job_id
    /\ _get_today_application_count(applications, now) > daily_limit

\* C20: every dispatch a batch counts as submitted has written its own
\* application record, whatever the job's status had become by then: the
\* status new a worker observed is not re-checked when it saves (so, as the
\* witness shows, two workers that both observed new both dispatch the job).
C20_DispatchAfterStaleCheck ==
    SumOver(BatchProcs, [p \in Procs |-> loc[p].submitted]) <= Len(applications)

\* C20 witness: two dry-run batch workers each dispatched the same job; it has
\* two application records.
C20_Witness ==
    /\ dry_run
    /\ BatchProcs = Procs
    /\ \A p \in Procs : loc[p].submitted >= 1 /\ loc[p].pending[1] = loc[1].pending[1]
    /\ Len(applications) >= 2
    /\ applications[1].job_id = loc[1].pending[1]
    /\ applications[2].job_id = loc[1].pending[1]


\* A matching of a posting against a profile that has been carried out.
ProfileMatched == fn.op = "match_job_profile" /\ fn.done

\* The skill score as the claim states it: the profile skills, over the four
\* categories, found in the job text directly or through a synonym, over the
\* number of profile skills; 50 when the profile has none.
ClaimedSkillScore(job, profile) ==
    LET all == profile.skills.programming \o profile.skills.domains
               \o profile.skills.tools \o profile.skills.cloud
        names(skill) ==
            {skill} \cup UNION {{e.base} \cup e.synonyms :
                                  e \in {e \in SKILL_SYNONYMS :
                                            skill = e.base \/ skill \in e.synonyms}}
        found(skill) == \E n \in names(skill) : IsSubstr(n, job_text(job))
        matched_count == Cardinality({k \in 1..Len(all) : found(lower(all[k]))})
        score == (matched_count * 100000) \div Len(all)
    IN  IF Len(all) = 0 THEN 50000
        ELSE IF score < 100000 THEN score ELSE 100000

\* C22 (as claimed): the skill score is min(100, matched / total * 100) with
\* the total counted over all four skill categories and each profile skill
\* counted once when found directly or through a synonym; it is the neutral 50
\* exactly when the profile defines no skill at all.
C22_SkillScoreFormula ==
    ProfileMatched => fn.scores.skill = ClaimedSkillScore(fn.job, fn.profile)

\* The profile and the posting of the worked example.
ExampleProfile ==
    [skills |-> [programming |-> <<Txt.Python, Txt.SQL>>, domains |-> <<>>,
                 tools |-> <<>>, cloud |-> <<>>],
     roles |-> <<Txt.Python_Developer>>, work_mode |-> <<>>, employment_type |-> <<>>]
ExampleJob ==
    [title |-> Txt.Python_Developer, description |-> Txt.Requires_Python_and_Pandas,
     requirements |-> Txt.empty, work_mode |-> Txt.empty, location |-> Txt.empty,
     job_type |-> Txt.empty]

\* C23 (as claimed): the composite score is the weighted sum of the four
\* sub-scores, each within 0..100, rounded to two decimals; for the worked
\* example the sub-scores are 50, 100, 70 and 70 and the composite is 71.00.
C23_CompositeExample ==
    ProfileMatched =>
        /\ \A k \in DOMAIN fn.scores : 0 <= fn.scores[k] /\ fn.scores[k] <= 100000
        /\ fn.out = (match_job_total(fn.scores, DefaultWeights) + 500) \div 1000
        /\ (fn.profile = ExampleProfile /\ fn.job = ExampleJob) =>
               /\ fn.scores = [skill |-> 50000, role |-> 100000,
                               work_mode |-> 70000, employment |-> 70000]
               /\ fn.out = 7100

\* C24 (as claimed): the role score is 100 whenever some target role of the
\* profile is a case-insensitive substring of the job title, wherever that role
\* stands in the list.
C24_DirectRoleMatch ==
    (/\ ProfileMatched
     /\ \E k \in 1..Len(fn.profile.roles) :
            IsSubstr(lower(fn.profile.roles[k]), lower(fn.job.title)))
        => fn.scores.role = 100000


\* The step of worker p that re-reads the queued job at the head of its loop.
RecheckStep(p) == pc[p] = "ab_loop" /\ loc'[p] # loc[p]

\* C21: when apply_batch re-reads a queued job, it goes on to dispatch it only
\* if the job has status new at that moment; otherwise the job is counted in
\* skipped, nothing is dispatched, and no job or application row changes.
C21_RecheckBeforeDispatch ==
    [][\A p \in Procs :
          RecheckStep(p) =>
              LET job_id == loc[p].pending[loc[p].i]
              IN  IF jobs[job_id].status = "new"
                  THEN /\ pc'[p] = "apply"
                       /\ loc'[p].job_id = job_id
                       /\ loc'[p].loaded = jobs[job_id]
                       /\ loc'[p].skipped = loc[p].skipped
                  ELSE /\ pc'[p] # "apply"
                       /\ loc'[p].skipped = loc[p].skipped + 1
                       /\ loc'[p].submitted = loc[p].submitted
                       /\ loc'[p].failed = loc[p].failed
                       /\ jobs' = jobs /\ applications' = applications]_vars

\* A batch that skipped a queued job because another worker had taken it out
\* of status new after the queue was built.
C21_Witness ==
    \E p \in Procs :
        /\ loc[p].op = "apply_batch" /\ loc[p].skipped >= 1
        /\ \E k \in 1..Len(loc[p].pending) : jobs[loc[p].pending[k]].status # "new"


\* The commit of an update_status call of process p.
UpdateStatusCommitted(p) == pc[p] = "us_commit" /\ loc'[p].ret = "True"

\* C25 (as claimed): an update_status call with notes appends them to the
\* job's approval_notes, so that notes of earlier calls are kept (the result
\* is the given notes alone only when there were none before, and otherwise a
\* longer text than either); a call without notes leaves approval_notes as
\* they are.
C25_NotesAppended ==
    [][\A p \in Procs :
          UpdateStatusCommitted(p) =>
              LET old == jobs[loc[p].job_id].approval_notes
                  new == jobs'[loc[p].job_id].approval_notes
              IN  IF loc[p].notes = None THEN new = old
                  ELSE IF old = None THEN new = loc[p].notes
                  ELSE new # loc[p].notes /\ new # old]_vars


\* The fields of a job row that update_status may set for a new status, besides
\* status, updated_at and approval_notes.
StatusFields(new_status) ==
    CASE new_status = "matched" -> {"matched_at"}
      [] new_status = "approved" -> {"approved_at", "is_approved"}
      [] new_status = "applied" -> {"applied_at"}
      [] new_status = "rejected" -> {"is_approved"}
      [] OTHER -> {}

\* C26: a committed update_status call sets the fields of its new status
\* (matched: matched_at; approved: approved_at and is_approved = true; applied:
\* applied_at; rejected: is_approved = false) and, besides status, updated_at
\* and the notes, no other field; and after every step a job with status
\* approved has is_approved true and a job with status rejected has it false.
C26_StatusFields ==
    [][/\ \A p \in Procs :
             UpdateStatusCommitted(p) =>
                 LET old == jobs[loc[p].job_id]
                     new == jobs'[loc[p].job_id]
                     s == loc[p].new_status
                 IN  /\ s = "matched" => new.matched_at \in 0..now
                     /\ s = "approved" => new.approved_at \in 0..now /\ new.is_approved
                     /\ s = "applied" => new.applied_at \in 0..now
                     /\ s = "rejected" => ~new.is_approved
                     /\ \A f \in DOMAIN old \ (StatusFields(s) \cup
                                {"status", "updated_at", "approval_notes"}) :
                            new[f] = old[f]
       /\ \A id \in DOMAIN jobs :
             /\ jobs'[id].status = "approved" => jobs'[id].is_approved
             /\ jobs'[id].status = "rejected" => ~jobs'[id].is_approved]_vars

\* C26 witness: a job that was approved and then rejected: approved_at is set
\* and is_approved is false again.
C26_Witness ==
    \E id \in DOMAIN jobs :
        /\ jobs[id].status = "rejected" /\ jobs[id].approved_at # NoTime
        /\ ~jobs[id].is_approved


\* The status_change audit entries of a job, oldest first.
StatusChanges(id) ==
    SelectSeq(audit, LAMBDA e : e.action = "status_change" /\ e.entity_id = id)

\* C27 (as claimed): the status_change entries of each job form a chain: each
\* entry's old_status is the new_status of the job's previous entry (new for
\* the first), and the newest entry's new_status is the job's current status.
C27_AuditChain ==
    \A id \in DOMAIN jobs :
        LET ch == StatusChanges(id)
        IN  /\ \A k \in 1..Len(ch) :
                  ch[k].details.old_status =
                      IF k = 1 THEN "new" ELSE ch[k - 1].details.new_status
            /\ Len(ch) > 0 => ch[Len(ch)].details.new_status = jobs[id].status


\* C28 (as claimed): every dispatch through apply_to_job leaves exactly one
\* application record when it succeeds and none when it fails: after the first
\* call of a run, the number of application records is the number of jobs the
\* batch counted in submitted (one or none after apply_single, as it returned
\* True or False), and a job is applied only if its dispatch succeeded.
C28_OneRecordPerDispatch ==
    \A p \in Procs :
        (calls = 1 /\ pc[p] = "idle") =>
            /\ (loc[p].op = "apply_batch" /\ loc[p].ret = "stats") =>
                   /\ Len(applications) = loc[p].stats.submitted
                   /\ Cardinality({id \in DOMAIN jobs : jobs[id].status = "applied"})
                          = loc[p].stats.submitted
            /\ loc[p].op = "apply_single" =>
                   /\ Len(applications) = IF loc[p].ret = "True" THEN 1 ELSE 0
                   /\ loc[p].ret = "False" =>
                          \A id \in DOMAIN jobs : jobs[id].status = "new"


\* A step of process p inside apply_to_job.
ApplyStep(p) == pc[p] \in {"apply", "apply_saved"}

\* C29 (as claimed): every status change made by the apply path follows an
\* edge of the transition graph; a job becomes applied only from approved,
\* with is_approved true.
C29_ApplyFollowsFlow ==
    [][\A p \in Procs :
          ApplyStep(p) =>
              \A id \in DOMAIN jobs :
                  jobs'[id].status # jobs[id].status =>
                      /\ jobs'[id].status \in AllowedNext(jobs[id].status, jobs'[id].status)
                      /\ jobs'[id].status = "applied" =>
                             jobs[id].status = "approved" /\ jobs[id].is_approved]_vars

\* C30 (as claimed): a job with status applied has applied_at set, so that on
\* the first day the tracker's count of jobs applied today is the number of
\* jobs with status applied.
C30_AppliedHasTimestamp ==
    /\ \A id \in DOMAIN jobs : jobs[id].status = "applied" => jobs[id].applied_at # NoTime
    /\ now = 0 => get_applied_today(jobs, now)
                     = Cardinality({id \in DOMAIN jobs : jobs[id].status = "applied"})

====
